---------------------------- MODULE Spec2Model ----------------------------
(***************************************************************************)
(* A model of tasks/steal_to_amd.js: the rewrite of a steal() module       *)
(* header into an AMD define() header (transformSource), its dependency    *)
(* name translator (convertToRequireJSDependency), the re-synthesis of     *)
(* string literals (buildStringExpr), the textual rewrite of the           *)
(* "global" linter directive, and the grunt multi-task that drives it.     *)
(*                                                                         *)
(* JavaScript strings are sequences of one-character strings, so that      *)
(* slice, replace, split and join are computed character by character.     *)
(***************************************************************************)
EXTENDS Integers, Sequences, FiniteSets, TLC

VARIABLES
    pc,                          \* position of the run that is modelled
    convertMap,                  \* options.convertMap
    convertExtensionsToPlugins,  \* options.convertExtensionsToPlugins, in iteration order
    name,                        \* argument of convertToRequireJSDependency
    translated,                  \* its return value
    stringExpr,                  \* buildStringExpr(translated)
    source,                      \* argument of transformSource
    printed,                     \* recast.print(ast).code, before the globals rewrite
    result,                      \* what transformSource returned (or that it threw)
    result2,                     \* what a second transformSource on the output returned
    files,                       \* the file paths the task iterates over
    idx,                         \* index of the next file path of the iteration
    disk0,                       \* content of every file before the task ran
    disk,                        \* content of every file now
    filesCompleted,              \* the task's counter of completed files
    maxFiles,                    \* options.maxFiles (0 stands for null)
    reads,                       \* paths handed to grunt.file.read, in order
    writes                       \* paths handed to grunt.file.write, in order

vars == <<pc, convertMap, convertExtensionsToPlugins, name, translated, stringExpr,
          source, printed, result, result2, files, idx, disk0, disk,
          filesCompleted, maxFiles, reads, writes>>

optionVars == <<convertMap, convertExtensionsToPlugins>>
translateVars == <<name, translated, stringExpr>>
transformVars == <<source, printed, result, result2>>
taskVars == <<files, idx, disk0, disk, filesCompleted, maxFiles, reads, writes>>

-----------------------------------------------------------------------------
(* Bounds of the model.                                                    *)

MaxNameParts == 3      \* pieces a dependency name is put together from
MaxArgs == 3           \* arguments of the steal() call
MaxStmts == 3          \* top-level statements of a program
MaxText == 3           \* lexemes of text around the header
MaxFileList == 3       \* file paths handed to the task
MaxCap == 2            \* largest options.maxFiles

-----------------------------------------------------------------------------
(* JavaScript string primitives on sequences of characters.                *)

Min(a, b) == IF a < b THEN a ELSE b

\* s.slice(0, n)
SliceHead(s, n) == SubSeq(s, 1, Min(n, Len(s)))

\* s.slice(-n); note that s.slice(-0) is s.slice(0), the whole string
SliceTail(s, n) ==
    IF n = 0 \/ n >= Len(s) THEN s ELSE SubSeq(s, Len(s) - n + 1, Len(s))

\* s.indexOf(pat), 1-based; 0 when pat does not occur
IndexOf(s, pat) ==
    LET hits == {i \in 1..(Len(s) - Len(pat) + 1) :
                    SubSeq(s, i, i + Len(pat) - 1) = pat}
    IN IF hits = {} THEN 0 ELSE CHOOSE i \in hits : \A k \in hits : i <= k

\* s.replace(pat, rep) with a string pattern: only the first occurrence
ReplaceFirst(s, pat, rep) ==
    LET i == IndexOf(s, pat)
    IN IF i = 0 THEN s
       ELSE SubSeq(s, 1, i - 1) \o rep \o SubSeq(s, i + Len(pat), Len(s))

\* s.split(sep) for a one-character separator
RECURSIVE Split(_, _)
Split(s, sep) ==
    LET i == IndexOf(s, <<sep>>)
    IN IF i = 0 THEN <<s>>
       ELSE <<SubSeq(s, 1, i - 1)>> \o Split(SubSeq(s, i + 1, Len(s)), sep)

\* parts.join(sep)
RECURSIVE Join(_, _)
Join(parts, sep) ==
    IF Len(parts) = 0 THEN <<>>
    ELSE IF Len(parts) = 1 THEN parts[1]
    ELSE parts[1] \o sep \o Join(Tail(parts), sep)

RECURSIVE Flatten(_)
Flatten(ss) == IF Len(ss) = 0 THEN <<>> ELSE ss[1] \o Flatten(Tail(ss))

\* all sequences over S of length at most n
SeqUpTo(S, n) == UNION {[1..k -> S] : k \in 0..n}

-----------------------------------------------------------------------------
(* The dependency name translator.                                         *)

jsExtension == <<".", "j", "s">>
relativePrefix == <<".", "/">>
pluginSuffix == <<"!">>

(* A JavaScript string is a sequence of one-character strings. A value    *)
(* that is no string is written as a one-element sequence whose element is *)
(* no character: undefined, a native function, the prototype object, and   *)
(* the value of a literal that is no string literal.                       *)

Undefined == <<"undefined">>

\* the values of the literals 5, true, null and /x/
NumberFive == <<"[Number: 5]">>
BooleanTrue == <<"[Boolean: true]">>
Null == <<"null">>
RegExpX == <<"[RegExp: /x/]">>

NonStringLiteralValues == {NumberFive, BooleanTrue, Null, RegExpX}

\* the properties every plain object inherits from Object.prototype
ObjectPrototypeKeys ==
    {<<"c", "o", "n", "s", "t", "r", "u", "c", "t", "o", "r">>,
     <<"t", "o", "S", "t", "r", "i", "n", "g">>,
     <<"t", "o", "L", "o", "c", "a", "l", "e", "S", "t", "r", "i", "n", "g">>,
     <<"v", "a", "l", "u", "e", "O", "f">>,
     <<"h", "a", "s", "O", "w", "n", "P", "r", "o", "p", "e", "r", "t", "y">>,
     <<"i", "s", "P", "r", "o", "t", "o", "t", "y", "p", "e", "O", "f">>,
     <<"p", "r", "o", "p", "e", "r", "t", "y", "I", "s", "E", "n", "u", "m", "e", "r", "a", "b", "l", "e">>,
     <<"_", "_", "d", "e", "f", "i", "n", "e", "G", "e", "t", "t", "e", "r", "_", "_">>,
     <<"_", "_", "d", "e", "f", "i", "n", "e", "S", "e", "t", "t", "e", "r", "_", "_">>,
     <<"_", "_", "l", "o", "o", "k", "u", "p", "G", "e", "t", "t", "e", "r", "_", "_">>,
     <<"_", "_", "l", "o", "o", "k", "u", "p", "S", "e", "t", "t", "e", "r", "_", "_">>,
     <<"_", "_", "p", "r", "o", "t", "o", "_", "_">>}

\* what obj[n] gives for an inherited property: the native function
\* (obj.constructor is Object), or Object.prototype for __proto__
InheritedValue(n) ==
    CASE n = <<"c", "o", "n", "s", "t", "r", "u", "c", "t", "o", "r">> -> <<"[Function: Object]">>
      [] n = <<"t", "o", "S", "t", "r", "i", "n", "g">> -> <<"[Function: toString]">>
      [] n = <<"t", "o", "L", "o", "c", "a", "l", "e", "S", "t", "r", "i", "n", "g">> -> <<"[Function: toLocaleString]">>
      [] n = <<"v", "a", "l", "u", "e", "O", "f">> -> <<"[Function: valueOf]">>
      [] n = <<"h", "a", "s", "O", "w", "n", "P", "r", "o", "p", "e", "r", "t", "y">> -> <<"[Function: hasOwnProperty]">>
      [] n = <<"i", "s", "P", "r", "o", "t", "o", "t", "y", "p", "e", "O", "f">> -> <<"[Function: isPrototypeOf]">>
      [] n = <<"p", "r", "o", "p", "e", "r", "t", "y", "I", "s", "E", "n", "u", "m", "e", "r", "a", "b", "l", "e">> -> <<"[Function: propertyIsEnumerable]">>
      [] n = <<"_", "_", "d", "e", "f", "i", "n", "e", "G", "e", "t", "t", "e", "r", "_", "_">> -> <<"[Function: __defineGetter__]">>
      [] n = <<"_", "_", "d", "e", "f", "i", "n", "e", "S", "e", "t", "t", "e", "r", "_", "_">> -> <<"[Function: __defineSetter__]">>
      [] n = <<"_", "_", "l", "o", "o", "k", "u", "p", "G", "e", "t", "t", "e", "r", "_", "_">> -> <<"[Function: __lookupGetter__]">>
      [] n = <<"_", "_", "l", "o", "o", "k", "u", "p", "S", "e", "t", "t", "e", "r", "_", "_">> -> <<"[Function: __lookupSetter__]">>
      [] OTHER -> <<"[Object: null prototype] {}">>

NativeFunctions == {InheritedValue(k) : k \in ObjectPrototypeKeys \ {<<"_", "_", "p", "r", "o", "t", "o", "_", "_">>}}

FunctionName(v) ==
    CASE v = <<"[Function: Object]">> -> <<"O", "b", "j", "e", "c", "t">>
      [] v = <<"[Function: toString]">> -> <<"t", "o", "S", "t", "r", "i", "n", "g">>
      [] v = <<"[Function: toLocaleString]">> -> <<"t", "o", "L", "o", "c", "a", "l", "e", "S", "t", "r", "i", "n", "g">>
      [] v = <<"[Function: valueOf]">> -> <<"v", "a", "l", "u", "e", "O", "f">>
      [] v = <<"[Function: hasOwnProperty]">> -> <<"h", "a", "s", "O", "w", "n", "P", "r", "o", "p", "e", "r", "t", "y">>
      [] v = <<"[Function: isPrototypeOf]">> -> <<"i", "s", "P", "r", "o", "t", "o", "t", "y", "p", "e", "O", "f">>
      [] v = <<"[Function: propertyIsEnumerable]">> -> <<"p", "r", "o", "p", "e", "r", "t", "y", "I", "s", "E", "n", "u", "m", "e", "r", "a", "b", "l", "e">>
      [] v = <<"[Function: __defineGetter__]">> -> <<"_", "_", "d", "e", "f", "i", "n", "e", "G", "e", "t", "t", "e", "r", "_", "_">>
      [] v = <<"[Function: __defineSetter__]">> -> <<"_", "_", "d", "e", "f", "i", "n", "e", "S", "e", "t", "t", "e", "r", "_", "_">>
      [] v = <<"[Function: __lookupGetter__]">> -> <<"_", "_", "l", "o", "o", "k", "u", "p", "G", "e", "t", "t", "e", "r", "_", "_">>
      [] v = <<"[Function: __lookupSetter__]">> -> <<"_", "_", "l", "o", "o", "k", "u", "p", "S", "e", "t", "t", "e", "r", "_", "_">>

\* "'" + value + "'": the string a value is converted to by the concatenation
StringOf(v) ==
    IF v \in NativeFunctions
    THEN <<"f", "u", "n", "c", "t", "i", "o", "n", " ">> \o FunctionName(v) \o <<"(", ")", " ", "{", " ", "[", "n", "a", "t", "i", "v", "e", " ", "c", "o", "d", "e", "]", " ", "}">>
    ELSE IF v = <<"[Object: null prototype] {}">> THEN <<"[", "o", "b", "j", "e", "c", "t", " ", "O", "b", "j", "e", "c", "t", "]">>
    ELSE IF v = Undefined THEN <<"u", "n", "d", "e", "f", "i", "n", "e", "d">>
    ELSE IF v = NumberFive THEN <<"5">>
    ELSE IF v = BooleanTrue THEN <<"t", "r", "u", "e">>
    ELSE IF v = Null THEN <<"n", "u", "l", "l">>
    ELSE IF v = RegExpX THEN <<"/", "x", "/">>
    ELSE v

\* whether a value is a string
IsString(v) ==
    v \notin NativeFunctions \cup NonStringLiteralValues
                \cup {<<"[Object: null prototype] {}">>, Undefined}

\* convertMap[name] on a plain object; the property key is the string the
\* value of name converts to ('undefined' for undefined, '5' for 5): the own
\* entry, else
\* the inherited property of Object.prototype, else undefined
ConvertMapValue(cm, n) ==
    LET key == StringOf(n)
    IN IF key \in DOMAIN cm THEN cm[key]
       ELSE IF key \in ObjectPrototypeKeys THEN InheritedValue(key)
       ELSE Undefined

\* if (convertMap[name]): neither undefined nor the empty string
HasConvertMapEntry(cm, n) == ConvertMapValue(cm, n) \notin {Undefined, <<>>}

\* the first extension, in iteration order, that name ends with (0 if none)
FirstMatchingExtension(exts, n) ==
    LET hits == {i \in 1..Len(exts) :
                    SliceTail(n, Len(exts[i].extension)) = exts[i].extension}
    IN IF hits = {} THEN 0 ELSE CHOOSE i \in hits : \A k \in hits : i <= k

\* return plugin + name.replace('!', '')
PluginName(plugin, n) == plugin \o ReplaceFirst(n, <<"!">>, <<>>)

\* return name.replace('.js', '')
StripJsExtension(n) == ReplaceFirst(n, jsExtension, <<>>)

\* "path/name" => "path/name/name"
DuplicateLastPart(n) ==
    LET depParts == Split(n, "/")
    IN Join(Append(depParts, depParts[Len(depParts)]), <<"/">>)

\* a name that is no string and has no entry reaches name.slice, which is
\* no function of such a value (and no property of undefined or null): a
\* TypeError is thrown
ConvertThrows(n, cm) == ~HasConvertMapEntry(cm, n) /\ ~IsString(n)

\* the return value, for a name on which nothing is thrown
convertToRequireJSDependency(n, cm, exts) ==
    IF HasConvertMapEntry(cm, n) THEN ConvertMapValue(cm, n)
    ELSE LET e == FirstMatchingExtension(exts, n)
         IN IF e # 0 THEN PluginName(exts[e].plugin, n)
            ELSE IF SliceTail(n, Len(jsExtension)) = jsExtension
                 THEN StripJsExtension(n)
            ELSE IF /\ SliceHead(n, Len(relativePrefix)) = relativePrefix
                    /\ SliceTail(n, Len(pluginSuffix)) # pluginSuffix
                 THEN n
            ELSE DuplicateLastPart(n)

-----------------------------------------------------------------------------
(* buildStringExpr: the value is pasted between single quotes and parsed.  *)
(* A value that is no string is converted to one by the concatenation.     *)
(* In the names of the model a backslash is followed by one of a . / ! c   *)
(* or by a backslash, none of which is an escape letter: in a string       *)
(* literal the pair stands for that character. A backslash as the last     *)
(* character escapes the closing quote, which leaves the literal           *)
(* unterminated: recast.parse throws.                                      *)

Backslash == "\\"

RECURSIVE Unescape(_)
Unescape(s) ==
    IF Len(s) = 0 THEN <<>>
    ELSE IF s[1] = Backslash
         THEN IF Len(s) = 1 THEN <<>>
              ELSE <<s[2]>> \o Unescape(SubSeq(s, 3, Len(s)))
    ELSE <<s[1]>> \o Unescape(Tail(s))

\* whether the closing quote of "'" + s + "'" is escaped by a backslash of s
RECURSIVE ClosingQuoteEscaped(_)
ClosingQuoteEscaped(s) ==
    IF Len(s) = 0 THEN FALSE
    ELSE IF s[1] = Backslash
         THEN IF Len(s) = 1 THEN TRUE
              ELSE ClosingQuoteEscaped(SubSeq(s, 3, Len(s)))
    ELSE ClosingQuoteEscaped(Tail(s))

\* the literal the parse of a quoted text gives: raw is the text between the
\* quotes, value the string it denotes; it is on line 1 of the parsed text
StringLiteral(v, raw) ==
    [type |-> "Literal", vtype |-> "string", value |-> v, raw |-> raw, line |-> 1]

buildStringExpr(stringValue) ==
    LET text == StringOf(stringValue)
    IN IF ClosingQuoteEscaped(text)
       THEN [threw |-> TRUE]
       ELSE [threw |-> FALSE, node |-> StringLiteral(Unescape(text), text)]

-----------------------------------------------------------------------------
(* The parsed program. A source text is the sequence of its top-level      *)
(* items in source order: statements (nodes of ast.program.body) and,      *)
(* between them, runs of text given lexeme by lexeme (type "Text"):        *)
(* comment delimiters, comment content, and the text of statements that    *)
(* are no call at all. recast prints every node it was not asked to        *)
(* change with its original text, so an unchanged item prints as itself.   *)

Text(tok) == [type |-> "Text", tok |-> tok]

\* typeof of the value of a literal
TypeOf(v) ==
    IF v = NumberFive THEN "number"
    ELSE IF v = BooleanTrue THEN "boolean"
    ELSE IF v \in {Null, RegExpX} THEN "object"
    ELSE "string"

Literal(v, line) == [type |-> "Literal", vtype |-> TypeOf(v), value |-> v, line |-> line]
Identifier(line) == [type |-> "Identifier", name |-> "dep", line |-> line]
FunctionExpression(body, line) ==
    [type |-> "FunctionExpression", body |-> body, line |-> line]

CallExpression(calleeName, arguments) ==
    [type |-> "CallExpression",
     callee |-> [type |-> "Identifier", name |-> calleeName],
     arguments |-> arguments]

\* calleeName(arguments);
CallStatement(calleeName, arguments) ==
    [type |-> "ExpressionStatement", expression |-> CallExpression(calleeName, arguments)]

\* steal.config(arguments);  the callee is a member expression
MemberCallStatement(arguments) ==
    [type |-> "ExpressionStatement",
     expression |-> [type |-> "CallExpression",
                     callee |-> [type |-> "MemberExpression",
                                 object |-> "steal", property |-> "config"],
                     arguments |-> arguments]]

\* x = steal(arguments);  the call is nested in another expression
AssignmentStatement(arguments) ==
    [type |-> "ExpressionStatement",
     expression |-> [type |-> "AssignmentExpression",
                     right |-> CallExpression("steal", arguments)]]

\* if (x) { steal(arguments); }  the call is in a statement that is not top-level
IfStatement(arguments) ==
    [type |-> "IfStatement", consequent |-> <<CallStatement("steal", arguments)>>]

\* the filter without the test of the callee's name
IsStealExprStm_AnyCallee(node) ==
    /\ node.type = "ExpressionStatement"
    /\ node.expression.type = "CallExpression"
    /\ node.expression.callee.type = "Identifier"

\* the filter of ast.program.body that finds the steal() header
IsStealExprStm(node) ==
    /\ node.type = "ExpressionStatement"
    /\ node.expression.type = "CallExpression"
    /\ node.expression.callee.type = "Identifier"
    /\ node.expression.callee.name = "steal"

\* positions, in statement order, of the statements the filter keeps
StealExprStms(src) == {i \in 1..Len(src) : IsStealExprStm(src[i])}

\* stealExprStms[stealExprStms.length - 1] in the place of stealExprStms[0]
FirstStealExprStm_Last(src) ==
    CHOOSE i \in StealExprStms(src) : \A k \in StealExprStms(src) : i >= k

\* stealExprStms[0]
FirstStealExprStm(src) ==
    CHOOSE i \in StealExprStms(src) : \A k \in StealExprStms(src) : i <= k

-----------------------------------------------------------------------------
(* The rewrite of the argument list of the located call.                   *)

\* position of funcArg in the argument list, 0 for funcArg = null
FuncArg(arguments) ==
    IF arguments[Len(arguments)].type = "FunctionExpression"
    THEN Len(arguments) ELSE 0

\* callExpr.arguments.filter(node => node !== funcArg): node identity is position
DepArgs(arguments) ==
    LET f == FuncArg(arguments)
    IN IF f = 0 THEN arguments ELSE SubSeq(arguments, 1, f - 1)

\* depArgs.length && depArgs[0].loc.start.line == lastDep.loc.start.line
DepArgsWereOnSingleLine(depArgs) ==
    /\ Len(depArgs) # 0
    /\ depArgs[1].line = depArgs[Len(depArgs)].line

\* the lines '[', one fake argument per dependency, ']'
NewArraySourceLines(depArgs) ==
    LET single == DepArgsWereOnSingleLine(depArgs)
        line(i) == IF i = Len(depArgs)
                   THEN (IF single THEN "\"REPLACE_ME\"" ELSE "    \"REPLACE_ME\"")
                   ELSE (IF single THEN "\"REPLACE_ME\", " ELSE "    \"REPLACE_ME\", ")
    IN <<"[">> \o [i \in 1..Len(depArgs) |-> line(i)] \o <<"]">>

\* newArraySourceLines.join('') or .join('\n')
NewArraySource(depArgs) ==
    [lines |-> NewArraySourceLines(depArgs),
     separator |-> IF DepArgsWereOnSingleLine(depArgs) THEN "" ELSE "\n"]

\* recast.parse(newArraySource).program.body[0].expression: an array of one
\* placeholder literal per fake argument, which keeps the layout of the text
NewArrayExpr(newArraySource) ==
    [type |-> "ArrayExpression",
     line |-> 1,
     multiline |-> newArraySource.separator = "\n",
     elements |-> [i \in 1..(Len(newArraySource.lines) - 2) |->
                      Literal(<<"R">>, IF newArraySource.separator = "\n" THEN i + 1 ELSE 1)]]

\* newArrayExpr.elements[index] = depArg
WithDepArgs(newArrayExpr, depArgs) ==
    [newArrayExpr EXCEPT !.elements =
        [i \in 1..Len(newArrayExpr.elements) |->
            IF i <= Len(depArgs) THEN depArgs[i] ELSE newArrayExpr.elements[i]]]

\* a splice that removes every argument, the factory included
SpliceArguments_All(arguments, depArgs, newArrayExpr) == <<newArrayExpr>>

\* callExpr.arguments.splice(0, depArgs.length, newArrayExpr)
SpliceArguments(arguments, depArgs, newArrayExpr) ==
    <<newArrayExpr>> \o SubSeq(arguments, Len(depArgs) + 1, Len(arguments))

\* depArg.value: the value of a literal, a string or not; an Identifier, a
\* FunctionExpression or an ArrayExpression node has no value property
DepArgValue(node) ==
    IF node.type = "Literal" THEN node.value ELSE Undefined

\* buildStringExpr(convertToRequireJSDependency(depArg.value)) for one element
ConvertElement(depArg, cm, exts) ==
    LET value == DepArgValue(depArg)
    IN IF ConvertThrows(value, cm) THEN [threw |-> TRUE]
       ELSE buildStringExpr(convertToRequireJSDependency(value, cm, exts))

\* the callee left as it was
RenameCallee_Kept(callExpr) == callExpr

\* stealExprStm.expression.callee.name = 'define'
RenameCallee(callExpr) == [callExpr EXCEPT !.callee.name = "define"]

\* lines 93-213 on the located call: the rewritten call, or that it threw
RewriteCall(callExpr, cm, exts) ==
    IF Len(callExpr.arguments) = 0
    THEN [threw |-> TRUE]     \* lastArg is undefined: lastArg.type throws
    ELSE
      LET renamed == RenameCallee(callExpr)
          depArgs == DepArgs(renamed.arguments)
          newArrayExpr == WithDepArgs(NewArrayExpr(NewArraySource(depArgs)), depArgs)
          converted == [i \in 1..Len(newArrayExpr.elements) |->
                           ConvertElement(newArrayExpr.elements[i], cm, exts)]
      IN IF \E i \in 1..Len(converted) : converted[i].threw
         THEN [threw |-> TRUE]
         ELSE [threw |-> FALSE,
               node |-> [renamed EXCEPT !.arguments =
                   SpliceArguments(renamed.arguments, depArgs,
                       [newArrayExpr EXCEPT !.elements =
                           [i \in 1..Len(converted) |-> converted[i].node]])]]

-----------------------------------------------------------------------------
(* The rewrite of "steal:false" in the globals header, on the printed text. *)

IsText(item, tok) == item.type = "Text" /\ item.tok = tok

\* transformedSource.split('*/')
RECURSIVE SplitParts(_)
SplitParts(text) ==
    LET hits == {i \in 1..Len(text) : IsText(text[i], "*/")}
    IN IF hits = {} THEN <<text>>
       ELSE LET i == CHOOSE i \in hits : \A k \in hits : i <= k
            IN <<SubSeq(text, 1, i - 1)>> \o SplitParts(SubSeq(text, i + 1, Len(text)))

\* transformedSourceParts.join('*/')
RECURSIVE JoinParts(_)
JoinParts(parts) ==
    IF Len(parts) = 1 THEN parts[1]
    ELSE parts[1] \o <<Text("*/")>> \o JoinParts(Tail(parts))

\* the regular expression /\bsteal:( ?false)/ matches inside this lexeme
MatchesStealFalse(item) ==
    item.type = "Text" /\ item.tok \in {"steal:false", "steal: false"}

\* 'define:$1'
DefineFalse(item) ==
    Text(IF item.tok = "steal:false" THEN "define:false" ELSE "define: false")

\* sourcePart.indexOf('/*global') !== -1
ContainsGlobalsHeader(part) == \E i \in 1..Len(part) : IsText(part[i], "/*global")

\* sourcePart.replace(/\bsteal:( ?false)/, 'define:$1', 1): the first match
ReplaceStealFalse(part) ==
    LET hits == {i \in 1..Len(part) : MatchesStealFalse(part[i])}
    IN IF hits = {} THEN part
       ELSE LET i == CHOOSE i \in hits : \A k \in hits : i <= k
            IN [part EXCEPT ![i] = DefineFalse(part[i])]

RenameGlobals(text) ==
    LET parts == SplitParts(text)
    IN JoinParts([i \in 1..Len(parts) |->
                     IF ContainsGlobalsHeader(parts[i])
                     THEN ReplaceStealFalse(parts[i]) ELSE parts[i]])

-----------------------------------------------------------------------------
(* transformSource                                                         *)

TransformSource(src, cm, exts) ==
    IF StealExprStms(src) = {}
    THEN [threw |-> FALSE, found |-> FALSE, printed |-> src, code |-> src]
    ELSE LET i == FirstStealExprStm(src)
             rewritten == RewriteCall(src[i].expression, cm, exts)
         IN IF rewritten.threw
            THEN [threw |-> TRUE, found |-> TRUE, printed |-> <<>>, code |-> <<>>]
            ELSE LET ast == [src EXCEPT ![i].expression = rewritten.node]
                 IN [threw |-> FALSE, found |-> TRUE,
                     printed |-> ast, code |-> RenameGlobals(ast)]

-----------------------------------------------------------------------------
(* Inputs.                                                                 *)

EmptyMap == [k \in {} |-> <<>>]

\* like the default 'can/util': 'can/util/jquery', 'jquery': 'jquery'; the
\* entry of "a!" is the empty string, which if (convertMap[name]) skips
SomeConvertMap ==
    (<<"a">> :> <<"a">>) @@ (<<"a", "/", "a">> :> <<"a", "/", "j">>) @@ (<<"a", "!">> :> <<>>)

\* a map with an entry under the key 'undefined'
UndefinedKeyMap == (<<"u", "n", "d", "e", "f", "i", "n", "e", "d">> :> <<"a">>)

\* a map with an entry under the key '5'
NumberKeyMap == (<<"5">> :> <<"a">>)

ConvertMaps == {EmptyMap, SomeConvertMap, UndefinedKeyMap, NumberKeyMap}

CssPlugin == [extension |-> <<".", "c", "s", "s", "!">>, plugin |-> <<"c", "s", "s", "!">>]
BangPlugin == [extension |-> <<"s", "!">>, plugin |-> <<"p", "!">>]

ExtensionMaps == {<<>>, <<CssPlugin>>, <<CssPlugin, BangPlugin>>, <<BangPlugin, CssPlugin>>}

NameParts ==
    {<<"a">>, <<"/">>, <<".", "j", "s">>, <<"!">>, <<".", "/">>,
     <<".", "c", "s", "s", "!">>, <<Backslash>>,
     <<"c", "o", "n", "s", "t", "r", "u", "c", "t", "o", "r">>}

\* every name put together from at most MaxNameParts pieces
Names == {Flatten(ps) : ps \in SeqUpTo(NameParts, MaxNameParts)}

DepNames ==
    {<<"a">>, <<"a", ".", "j", "s">>, <<"a", Backslash, "s">>, <<"a", Backslash>>,
     <<"c", "o", "n", "s", "t", "r", "u", "c", "t", "o", "r">>}

ArgNodes ==
    {Literal(n, 1) : n \in DepNames}
    \cup {Literal(NumberFive, 1), Identifier(1), FunctionExpression("body", 1)}

\* argument lists written on one line, or one argument per line
ArgLists ==
    {[i \in 1..Len(a) |-> [a[i] EXCEPT !.line = IF multi THEN i ELSE 1]] :
        a \in SeqUpTo(ArgNodes, MaxArgs), multi \in BOOLEAN}

FewArgLists ==
    {<<Literal(<<"a">>, 1), FunctionExpression("body", 1)>>,
     <<Literal(<<"a">>, 1), Literal(<<"a", ".", "j", "s">>, 2)>>,
     <<Identifier(1), FunctionExpression("body", 1)>>}

Statements ==
    {CallStatement("steal", a) : a \in FewArgLists}
    \cup {CallStatement("foo", a) : a \in {<<Literal(<<"a">>, 1)>>}}
    \cup {MemberCallStatement(a) : a \in {<<Literal(<<"a">>, 1)>>}}
    \cup {AssignmentStatement(a) : a \in {<<Literal(<<"a">>, 1)>>}}
    \cup {IfStatement(a) : a \in {<<Literal(<<"a">>, 1), FunctionExpression("body", 1)>>}}

Lexemes == {"/*global", "/*", "*/", "steal:false", "steal: false", "xsteal:false", "foo"}

\* comments are closed and "*/" occurs only where it closes one
RECURSIVE WellFormedFrom(_, _)
WellFormedFrom(text, inComment) ==
    IF Len(text) = 0 THEN ~inComment
    ELSE IF text[1] = "*/" THEN inComment /\ WellFormedFrom(Tail(text), FALSE)
    ELSE IF text[1] \in {"/*", "/*global"} THEN WellFormedFrom(Tail(text), TRUE)
    ELSE WellFormedFrom(Tail(text), inComment)

Texts(n) ==
    {[i \in 1..Len(t) |-> Text(t[i])] :
        t \in {u \in SeqUpTo(Lexemes, n) : WellFormedFrom(u, FALSE)}}

Sources ==
    \* one steal() header with every argument list, alone or before a later call
    {<<CallStatement("steal", a)>> \o tail :
        a \in ArgLists,
        tail \in {<<>>, <<CallStatement("steal", <<Literal(<<"a">>, 1)>>)>>}}
    \* a header whose dependency is a literal that is no string
    \cup {<<CallStatement("steal", <<Literal(v, 1), FunctionExpression("body", 1)>>)>> :
            v \in NonStringLiteralValues}
    \* programs of several statements
    \cup SeqUpTo(Statements, MaxStmts)
    \* text before and after one statement
    \cup UNION {{before \o <<stm>> \o after :
                    stm \in {CallStatement("steal", <<Literal(<<"a">>, 1),
                                                      FunctionExpression("body", 1)>>),
                             CallStatement("foo", <<Literal(<<"a">>, 1)>>),
                             IfStatement(<<Literal(<<"a">>, 1)>>)},
                    after \in Texts(MaxText - Len(before))} :
                before \in Texts(MaxText)}

IgnorePaths == << <<"i", "/">> >>

FilePaths == {<<"i", "/", "a">>, <<"a">>, <<"b">>}

Contents ==
    {<<Text("/*global"), Text("steal:false"), Text("*/"),
       CallStatement("steal", <<Literal(<<"a">>, 1), FunctionExpression("body", 1)>>)>>,
     <<CallStatement("foo", <<Literal(<<"a">>, 1)>>)>>,
     <<CallStatement("steal", <<Literal(<<"a">>, 1), Identifier(1), FunctionExpression("body", 1)>>)>>,
     <<CallStatement("steal", <<Literal(NumberFive, 1), FunctionExpression("body", 1)>>)>>}

NoResult == [threw |-> FALSE, found |-> FALSE, printed |-> <<>>, code |-> <<>>]
NoStringExpr == [threw |-> FALSE, node |-> StringLiteral(<<>>, <<>>)]

TranslateIdle ==
    /\ name = <<>> /\ translated = <<>> /\ stringExpr = NoStringExpr
TransformIdle ==
    /\ source = <<>> /\ printed = <<>> /\ result = NoResult /\ result2 = NoResult
TaskIdle ==
    /\ files = <<>> /\ idx = 1 /\ disk0 = EmptyMap /\ disk = EmptyMap
    /\ filesCompleted = 0 /\ maxFiles = 0 /\ reads = <<>> /\ writes = <<>>

-----------------------------------------------------------------------------
(* The name translator and buildStringExpr on their own.                   *)

InitTranslate ==
    /\ pc = "translate"
    /\ convertMap \in ConvertMaps
    /\ convertExtensionsToPlugins \in ExtensionMaps
    /\ name \in Names
    /\ translated = <<>>
    /\ stringExpr = NoStringExpr
    /\ TransformIdle
    /\ TaskIdle

Translate ==
    /\ pc = "translate"
    /\ translated' = convertToRequireJSDependency(name, convertMap, convertExtensionsToPlugins)
    /\ pc' = "build"
    /\ UNCHANGED <<optionVars, name, stringExpr, transformVars, taskVars>>

BuildStringExpr ==
    /\ pc = "build"
    /\ stringExpr' = buildStringExpr(translated)
    /\ pc' = "built"
    /\ UNCHANGED <<optionVars, name, translated, transformVars, taskVars>>

NextTranslate == Translate \/ BuildStringExpr

SpecTranslate == InitTranslate /\ [][NextTranslate]_vars

-----------------------------------------------------------------------------
(* transformSource on one source text, and once more on its own output.    *)

Init ==
    /\ pc = "transform"
    /\ convertMap \in ConvertMaps
    /\ convertExtensionsToPlugins = <<CssPlugin, BangPlugin>>
    /\ source \in Sources
    /\ printed = <<>>
    /\ result = NoResult
    /\ result2 = NoResult
    /\ TranslateIdle
    /\ TaskIdle

Transform ==
    /\ pc = "transform"
    /\ result' = TransformSource(source, convertMap, convertExtensionsToPlugins)
    /\ printed' = result'.printed
    /\ pc' = "transformed"
    /\ UNCHANGED <<optionVars, source, result2, translateVars, taskVars>>

TransformAgain ==
    /\ pc = "transformed"
    /\ ~result.threw
    /\ result2' = TransformSource(result.code, convertMap, convertExtensionsToPlugins)
    /\ pc' = "again"
    /\ UNCHANGED <<optionVars, source, printed, result, translateVars, taskVars>>

Next == Transform \/ TransformAgain

Spec == Init /\ [][Next]_vars

-----------------------------------------------------------------------------
(* The stealToAmd task: one step per file path of the iteration.           *)

\* options.maxFiles && (filesCompleted > options.maxFiles)
OverCap == maxFiles # 0 /\ filesCompleted > maxFiles

\* filePath.slice(0, ignorePath.length) === ignorePath for some ignorePath
Ignored(filePath) ==
    \E i \in 1..Len(IgnorePaths) :
        SliceHead(filePath, Len(IgnorePaths[i])) = IgnorePaths[i]

TaskConvertMaps == {SomeConvertMap, UndefinedKeyMap, NumberKeyMap}
TaskExtensions == <<CssPlugin>>

InitTask ==
    /\ pc = "task"
    /\ convertMap \in TaskConvertMaps
    /\ convertExtensionsToPlugins = TaskExtensions
    /\ files \in SeqUpTo(FilePaths, MaxFileList)
    /\ idx = 1
    /\ disk0 \in [FilePaths -> Contents]
    /\ disk = disk0
    /\ filesCompleted = 0
    /\ maxFiles \in 0..MaxCap
    /\ reads = <<>>
    /\ writes = <<>>
    /\ TranslateIdle
    /\ TransformIdle

\* the callback returns at once: the cap is passed
SkipOverCap ==
    /\ pc = "task" /\ idx <= Len(files)
    /\ OverCap
    /\ idx' = idx + 1
    /\ UNCHANGED <<pc, optionVars, translateVars, transformVars,
                   files, disk0, disk, filesCompleted, maxFiles, reads, writes>>

\* the callback returns after 'Ignoring: ...'
IgnoreFile ==
    /\ pc = "task" /\ idx <= Len(files)
    /\ ~OverCap
    /\ Ignored(files[idx])
    /\ idx' = idx + 1
    /\ UNCHANGED <<pc, optionVars, translateVars, transformVars,
                   files, disk0, disk, filesCompleted, maxFiles, reads, writes>>

\* read, transformSource returns, write, filesCompleted += 1
ProcessFile ==
    /\ pc = "task" /\ idx <= Len(files)
    /\ ~OverCap
    /\ ~Ignored(files[idx])
    /\ LET newContent == TransformSource(disk[files[idx]], convertMap,
                                         convertExtensionsToPlugins)
       IN /\ ~newContent.threw
          /\ disk' = [disk EXCEPT ![files[idx]] = newContent.code]
    /\ reads' = Append(reads, files[idx])
    /\ writes' = Append(writes, files[idx])
    /\ filesCompleted' = filesCompleted + 1
    /\ idx' = idx + 1
    /\ UNCHANGED <<pc, optionVars, translateVars, transformVars, files, disk0, maxFiles>>

\* read, transformSource throws: the exception leaves both forEach loops
FailFile ==
    /\ pc = "task" /\ idx <= Len(files)
    /\ ~OverCap
    /\ ~Ignored(files[idx])
    /\ TransformSource(disk[files[idx]], convertMap, convertExtensionsToPlugins).threw
    /\ reads' = Append(reads, files[idx])
    /\ pc' = "failed"
    /\ UNCHANGED <<optionVars, translateVars, transformVars,
                   files, idx, disk0, disk, filesCompleted, maxFiles, writes>>

NextTask == SkipOverCap \/ IgnoreFile \/ ProcessFile \/ FailFile

SpecTask == InitTask /\ [][NextTask]_vars

-----------------------------------------------------------------------------
(* What the properties speak about, stated on the input and the output.    *)

\* positions of the top-level expression statements that call steal
TopLevelStealCalls(src) ==
    {i \in 1..Len(src) :
        /\ src[i].type = "ExpressionStatement"
        /\ src[i].expression.type = "CallExpression"
        /\ src[i].expression.callee.type = "Identifier"
        /\ src[i].expression.callee.name = "steal"}

HasHeader(src) == TopLevelStealCalls(src) # {}

\* position of the first top-level steal call
Header(src) ==
    CHOOSE i \in TopLevelStealCalls(src) : \A k \in TopLevelStealCalls(src) : i <= k

HeaderArgs(src) == src[Header(src)].expression.arguments

EndsWithFunction(args) ==
    Len(args) > 0 /\ args[Len(args)].type = "FunctionExpression"

\* the arguments before a final function expression
Dependencies(args) ==
    IF EndsWithFunction(args) THEN SubSeq(args, 1, Len(args) - 1) ELSE args

IsStringLiteral(node) == node.type = "Literal" /\ node.vtype = "string"

HasNonStringDependency(src) ==
    /\ HasHeader(src)
    /\ \E i \in 1..Len(Dependencies(HeaderArgs(src))) :
          ~IsStringLiteral(Dependencies(HeaderArgs(src))[i])

IsStatement(item) == item.type # "Text"

Transformed == pc \in {"transformed", "again"}

Succeeded == Transformed /\ ~result.threw

EndsWith(s, suffix) ==
    Len(suffix) <= Len(s) /\ SubSeq(s, Len(s) - Len(suffix) + 1, Len(s)) = suffix

RECURSIVE RemoveAll(_, _)
RemoveAll(s, c) ==
    IF Len(s) = 0 THEN <<>>
    ELSE IF s[1] = c THEN RemoveAll(Tail(s), c)
    ELSE <<s[1]>> \o RemoveAll(Tail(s), c)

\* C1: a source text with no top-level call to steal is returned unchanged.
C1_NoHeaderNoChange ==
    (Transformed /\ ~HasHeader(source)) => (~result.threw /\ result.code = source)

\* a text with a nested steal call and a globals comment went through unchanged
C1_Witness ==
    /\ pc = "transformed"
    /\ ~HasHeader(source)
    /\ \E i \in 1..Len(source) : source[i].type = "IfStatement"
    /\ \E i \in 1..(Len(source) - 1) :
          IsText(source[i], "/*global") /\ IsText(source[i + 1], "steal:false")
    /\ result.code = source

C5_DependenciesTranslatedInOrder ==
    (/\ Succeeded
     /\ HasHeader(source)
     /\ ~HasNonStringDependency(source)) =>
        LET deps == Dependencies(HeaderArgs(source))
            array == result.code[Header(source)].expression.arguments[1]
        IN /\ array.type = "ArrayExpression"
           /\ Len(array.elements) = Len(deps)
           /\ \A i \in 1..Len(deps) :
                 /\ array.elements[i].type = "Literal"
                 /\ array.elements[i].value =
                        convertToRequireJSDependency(deps[i].value, convertMap,
                                                     convertExtensionsToPlugins)

\* C6 as stated: a name with no exact entry that ends with no extension key
\* and ends with ".js" loses exactly that trailing ".js".
C6_TrailingJsStripped ==
    (/\ pc \in {"build", "built"}
     /\ name \notin DOMAIN convertMap
     /\ \A i \in 1..Len(convertExtensionsToPlugins) :
           ~EndsWith(name, convertExtensionsToPlugins[i].extension)
     /\ EndsWith(name, jsExtension)) =>
        translated = SubSeq(name, 1, Len(name) - Len(jsExtension))

\* C7 as stated: a name with no exact entry that ends with an extension key
\* becomes the plugin of the first such key followed by the name without "!".
C7_PluginPrefixAndNoBang ==
    (/\ pc \in {"build", "built"}
     /\ name \notin DOMAIN convertMap
     /\ \E i \in 1..Len(convertExtensionsToPlugins) :
           EndsWith(name, convertExtensionsToPlugins[i].extension)) =>
        LET first == CHOOSE i \in 1..Len(convertExtensionsToPlugins) :
                        /\ EndsWith(name, convertExtensionsToPlugins[i].extension)
                        /\ \A k \in 1..(i - 1) :
                              ~EndsWith(name, convertExtensionsToPlugins[k].extension)
        IN translated = convertExtensionsToPlugins[first].plugin \o RemoveAll(name, "!")

\* lexeme i of the text lies after a "/*global" that no "*/" has closed yet
InGlobalsComment(text, i) ==
    \E g \in 1..(i - 1) :
        /\ IsText(text[g], "/*global")
        /\ \A k \in g..i : ~IsText(text[k], "*/")

\* C8 as stated: the globals rewrite changes at most one place of the printed
\* text, a steal:false inside a globals comment, into define:false.
C8_OneRenameInsideGlobalsComment ==
    (Succeeded /\ result.found) =>
        LET changed == {i \in 1..Len(result.printed) : result.code[i] # result.printed[i]}
        IN /\ Len(result.code) = Len(result.printed)
           /\ Cardinality(changed) <= 1
           /\ \A i \in changed :
                 /\ InGlobalsComment(result.printed, i)
                 /\ MatchesStealFalse(result.printed[i])
                 /\ result.code[i] = DefineFalse(result.printed[i])

\* whether the path was handed to read / write
WasRead(path) == \E i \in 1..Len(reads) : reads[i] = path
WasWritten(path) == \E i \in 1..Len(writes) : writes[i] = path

\* C9 as stated: a file whose header has a dependency that is no string
\* literal makes the run fail when it is reached, is never written and keeps
\* its content.
C9_MalformedFileLeftUntouched ==
    \A path \in DOMAIN disk0 :
        HasNonStringDependency(disk0[path]) =>
            /\ disk[path] = disk0[path]
            /\ ~WasWritten(path)
            /\ WasRead(path) => pc = "failed"

\* C10 as stated: with maxFiles = N > 0 at most N files are read, transformed
\* and written, and ignored files are neither read nor written.
C10_AtMostMaxFiles ==
    maxFiles > 0 =>
        /\ filesCompleted <= maxFiles
        /\ Len(writes) <= maxFiles
        /\ \A path \in DOMAIN disk0 : Ignored(path) => ~WasRead(path) /\ ~WasWritten(path)

=============================================================================
